---- MODULE Spec2Model ----
(***************************************************************************)
(* A model of the directed-graph library of include/graph/graph.hpp:       *)
(* the mutable DirectedGraph (an unordered_map from NodeID to an           *)
(* unordered_set of successors), its compilation into the CompiledGraph    *)
(* (offsets_ / destinations_ arrays indexed by raw NodeID), and the three  *)
(* traversal views (dfs_view_t, bfs_view_t, topological_view_t), and       *)
(* to_dot of include/graph/graphviz.hpp.                                   *)
(*                                                                         *)
(* NodeID is an unsigned integer of IdBits bits; arithmetic that the code  *)
(* performs in NodeID (the ++node of the construction loop, the cast of    *)
(* max_node_id_ + 1 in nodes() and edges()) is taken modulo 2^IdBits.      *)
(* The iteration order of an unordered container is unspecified: every     *)
(* place where the code iterates one chooses the order nondeterministically.*)
(***************************************************************************)
EXTENDS Integers, Sequences, FiniteSets, TLC

\* ------------------------------------------------------------------ bounds
\* Width of NodeID in bits (std::uint16_t in the source, scaled down).
IdBits == 3
\* Ordinary identifiers handed to add_edge / remove_edge are 0..MaxNode.
MaxNode == 2
\* add_edge of a new edge is taken only while edge_count() < MaxEdges.
MaxEdges == 3
\* destinations_ cannot grow beyond MaxDest entries (the allocation fails); every
\* graph the model builds fits, the test fixture's graph included.
MaxDest == MaxEdges + 1

NodeIdCount == 2 ^ IdBits
\* Every value of type NodeID.
NodeIdRange == 0 .. (NodeIdCount - 1)
\* The largest representable NodeID.
TopId == NodeIdCount - 1
\* static_cast<NodeID>(x)
NodeIdCast(x) == x % NodeIdCount

\* Identifiers the callers pass in: the ordinary ones and the largest one.
InputIds == (0 .. MaxNode) \cup {TopId}
\* Identifiers the callers pass in when the graph is built for a traversal.
ViewIds == 0 .. MaxNode

\* One identifier more than ViewIds: the graphs that branch below the start.
WideIds == 0 .. (MaxNode + 1)

\* The smallest and the largest ordinary identifier: the nodes of the graphs
\* that have gaps in their identifiers.
SparseIds == {0, MaxNode}

\* The identifiers the queries ask about: nodes, a gap, and identifiers beyond
\* every node.
QueryIds == {0, 1, MaxNode, MaxNode + 1, TopId}

VARIABLES
    adjacency_list_,  \* DirectedGraph: function from the known nodes to successor sets
    offsets_,         \* CompiledGraph: function 0..max_node_id_+1 -> index
    destinations_,    \* CompiledGraph: sequence of NodeID
    max_node_id_,     \* CompiledGraph
    node,             \* CompiledGraph constructor: loop counter (a NodeID)
    offset,           \* CompiledGraph constructor: running offset
    pc,               \* position of the single thread of control
    start_,           \* dfs_view_t / bfs_view_t: the start node
    graph_,           \* the graph a view is built over: "g" (DirectedGraph) or "c" (CompiledGraph)
    it_graph_,        \* dfs / bfs iterator: its graph pointer, "null" or the view's graph
    stack_,           \* dfs iterator: sequence, top is the last element
    queue_,           \* bfs iterator / topological queue: sequence, front is the head
    visited_,         \* dfs / bfs iterator
    current_,         \* dfs / bfs iterator
    at_end_,          \* dfs iterator
    in_degree,        \* topological_view_t constructor: function on its keys
    sorted_nodes_,    \* topological_view_t
    out               \* the values a consumer read from the traversal, in order

graphVars == <<adjacency_list_>>
compiledVars == <<offsets_, destinations_, max_node_id_, node, offset>>
viewVars == <<start_, graph_, it_graph_, stack_, queue_, visited_, current_, at_end_, in_degree, sorted_nodes_, out>>
vars == <<adjacency_list_, offsets_, destinations_, max_node_id_, node, offset, pc,
          start_, graph_, it_graph_, stack_, queue_, visited_, current_, at_end_, in_degree, sorted_nodes_, out>>

\* ------------------------------------------------------------- helpers
\* The largest element of a non-empty set of numbers.
SetMax(S) == CHOOSE x \in S : \A y \in S : y <= x

\* Every order in which the elements of S can be iterated.
Orders(S) == {s \in [1 .. Cardinality(S) -> S] : \A i, j \in DOMAIN s : s[i] = s[j] => i = j}

\* The elements of a sequence.
Range(s) == {s[i] : i \in DOMAIN s}

RECURSIVE SumOver(_, _)
SumOver(f, S) == IF S = {} THEN 0
                 ELSE LET x == CHOOSE y \in S : TRUE
                      IN Cardinality(f[x]) + SumOver(f, S \ {x})

\* --------------------------------------------------------- DirectedGraph
\* unordered_map::operator[]: inserts a default (empty) value for a new key.
MapIndex(adj, key) == IF key \in DOMAIN adj THEN adj ELSE adj @@ (key :> {})

add_edge_no_to(adj, from, to) ==
    LET a1 == MapIndex(adj, from)
    IN [a1 EXCEPT ![from] = @ \cup {to}]

\* add_edge that assigns an empty successor set to `to` instead of touching it.
add_edge_reset_to(adj, from, to) ==
    LET a1 == MapIndex(adj, from)
        a2 == [a1 EXCEPT ![from] = @ \cup {to}]
    IN [MapIndex(a2, to) EXCEPT ![to] = {}]

add_edge(adj, from, to) ==
    LET a1 == MapIndex(adj, from)
        a2 == [a1 EXCEPT ![from] = @ \cup {to}]
    IN MapIndex(a2, to)

remove_edge_erase_node(adj, from, to) ==
    IF from \in DOMAIN adj
    THEN [n \in (DOMAIN adj) \ {from} |-> adj[n]]
    ELSE adj

remove_edge(adj, from, to) ==
    IF from \in DOMAIN adj
    THEN [adj EXCEPT ![from] = @ \ {to}]
    ELSE adj

DirectedGraph_has_edge(adj, from, to) ==
    IF from \in DOMAIN adj THEN to \in adj[from] ELSE FALSE

\* The successor set; the order of iteration is chosen where it is iterated.
DirectedGraph_successors(adj, n) ==
    IF n \in DOMAIN adj THEN adj[n] ELSE {}

DirectedGraph_nodes(adj) == DOMAIN adj

DirectedGraph_node_count(adj) == Cardinality(DOMAIN adj)

DirectedGraph_edge_count(adj) == SumOver(adj, DOMAIN adj)

\* --------------------------------------------------------- CompiledGraph
FindMaxNodeId_NodeCount(adj) == Cardinality(DOMAIN adj)

\* Lines 92-95: the maximum key, starting from 0.
FindMaxNodeId(adj) == SetMax(DOMAIN adj \cup {0})

\* std::ranges::sort, as an insertion sort of the vector.
RECURSIVE InsertSorted(_, _)
InsertSorted(s, x) ==
    IF s = <<>> THEN <<x>>
    ELSE IF x <= Head(s) THEN <<x>> \o s
    ELSE <<Head(s)>> \o InsertSorted(Tail(s), x)

RECURSIVE SortVector(_)
SortVector(s) == IF s = <<>> THEN <<>> ELSE InsertSorted(SortVector(Tail(s)), Head(s))

sorted_successors_unsorted(order) == order

\* Lines 108-109: the vector built from the set's iteration order, then sorted.
sorted_successors(order) == SortVector(order)

\* Lines 118-125: the span [offsets_[node], offsets_[node + 1]) of destinations_.
CompiledGraph_successors(n) ==
    IF n <= max_node_id_
    THEN SubSeq(destinations_, offsets_[n] + 1, offsets_[n + 1])
    ELSE <<>>

\* std::lower_bound over s[first .. first + len - 1] (1-based positions).
RECURSIVE LowerBound(_, _, _, _)
LowerBound(s, x, first, len) ==
    IF len <= 0 THEN first
    ELSE LET half == len \div 2
             mid == first + half
         IN IF s[mid] < x
            THEN LowerBound(s, x, mid + 1, len - half - 1)
            ELSE LowerBound(s, x, first, half)

\* std::ranges::binary_search: lower_bound, then the element found is not greater.
binary_search(s, x) ==
    LET pos == LowerBound(s, x, 1, Len(s))
    IN pos <= Len(s) /\ ~(x < s[pos])

\* Lines 127-130.
CompiledGraph_has_edge(from, to) == binary_search(CompiledGraph_successors(from), to)

\* Line 132.
CompiledGraph_out_degree(n) == Len(CompiledGraph_successors(n))

\* Lines 134-140: iota(0, NodeID(max_node_id_ + 1)) filtered; ascending order.
CompiledGraph_nodes ==
    {n \in 0 .. (NodeIdCast(max_node_id_ + 1) - 1) :
        \/ offsets_[n] # offsets_[n + 1]
        \/ \E i \in DOMAIN destinations_ : destinations_[i] = n}

\* Lines 145-151: the edges out of `from`, in the order of destinations_.
EdgesOut(from) ==
    [i \in 1 .. (offsets_[from + 1] - offsets_[from])
        |-> <<from, destinations_[offsets_[from] + i]>>]

\* The join of EdgesOut(from) for from = lo, lo + 1, ..., hi - 1.
RECURSIVE JoinEdgesOut(_, _)
JoinEdgesOut(lo, hi) ==
    IF lo >= hi THEN <<>> ELSE EdgesOut(lo) \o JoinEdgesOut(lo + 1, hi)

\* edges() whose outer iota stops at max_node_id_.
CompiledGraph_edges_StopAtMax == JoinEdgesOut(0, max_node_id_)

\* Lines 142-153: iota(0, NodeID(max_node_id_ + 1)) transformed and joined.
CompiledGraph_edges == JoinEdgesOut(0, NodeIdCast(max_node_id_ + 1))

\* Line 155.
CompiledGraph_node_count == Cardinality(CompiledGraph_nodes)

\* Line 157.
CompiledGraph_edge_count == Len(destinations_)

\* ------------------------------------------------------------------ Init
Init ==
    /\ adjacency_list_ = <<>>
    /\ offsets_ = <<>>
    /\ destinations_ = <<>>
    /\ max_node_id_ = 0
    /\ node = 0
    /\ offset = 0
    /\ pc = "edit"
    /\ start_ = 0
    /\ graph_ = "null"
    /\ it_graph_ = "null"
    /\ stack_ = <<>>
    /\ queue_ = <<>>
    /\ visited_ = {}
    /\ current_ = 0
    /\ at_end_ = TRUE
    /\ in_degree = <<>>
    /\ sorted_nodes_ = <<>>
    /\ out = <<>>

\* --------------------------------------------------------------- actions
\* DirectedGraph::add_edge(from, to).
AddEdge(from, to) ==
    /\ pc = "edit"
    /\ \/ DirectedGraph_has_edge(adjacency_list_, from, to)
       \/ DirectedGraph_edge_count(adjacency_list_) < MaxEdges
    /\ adjacency_list_' = add_edge(adjacency_list_, from, to)
    /\ UNCHANGED <<compiledVars, pc, viewVars>>

\* DirectedGraph::remove_edge(from, to).
RemoveEdge(from, to) ==
    /\ pc = "edit"
    /\ adjacency_list_' = remove_edge(adjacency_list_, from, to)
    /\ UNCHANGED <<compiledVars, pc, viewVars>>

\* DirectedGraph::compile() entering the CompiledGraph constructor, up to the
\* initialisation of the construction loop.
CompileBegin ==
    /\ pc = "edit"
    /\ max_node_id_' = FindMaxNodeId(adjacency_list_)
    /\ offsets_' = [i \in 0 .. (max_node_id_' + 1) |-> 0]
    /\ destinations_' = <<>>
    /\ offset' = 0
    /\ node' = 0
    /\ pc' = "compile_loop"
    /\ UNCHANGED <<graphVars, viewVars>>

\* The loop body that records the node's offset after appending its successors.
CompileStep_OffsetAfter ==
    /\ pc = "compile_loop"
    /\ node <= max_node_id_
    /\ \E order \in Orders(DirectedGraph_successors(adjacency_list_, node)) :
          LET sorted == sorted_successors(order)
          IN IF Len(destinations_) + Len(sorted) > MaxDest
             THEN /\ offsets_' = offsets_
                  /\ pc' = "bad_alloc"
                  /\ UNCHANGED <<destinations_, offset, node>>
             ELSE /\ offsets_' = [offsets_ EXCEPT ![node] = offset + Len(sorted)]
                  /\ destinations_' = destinations_ \o sorted
                  /\ offset' = offset + Len(sorted)
                  /\ node' = NodeIdCast(node + 1)
                  /\ pc' = pc
    /\ UNCHANGED <<graphVars, max_node_id_, viewVars>>

\* One iteration of the construction loop (lines 101-114), the ++node included.
\* destinations_.insert throws when the vector cannot grow.
CompileStep ==
    /\ pc = "compile_loop"
    /\ node <= max_node_id_
    /\ \E order \in Orders(DirectedGraph_successors(adjacency_list_, node)) :
          LET sorted == sorted_successors(order)
          IN IF Len(destinations_) + Len(sorted) > MaxDest
             THEN /\ offsets_' = [offsets_ EXCEPT ![node] = offset]
                  /\ pc' = "bad_alloc"
                  /\ UNCHANGED <<destinations_, offset, node>>
             ELSE /\ offsets_' = [offsets_ EXCEPT ![node] = offset]
                  /\ destinations_' = destinations_ \o sorted
                  /\ offset' = offset + Len(sorted)
                  /\ node' = NodeIdCast(node + 1)
                  /\ pc' = pc
    /\ UNCHANGED <<graphVars, max_node_id_, viewVars>>

CompileEnd_NoSentinel ==
    /\ pc = "compile_loop"
    /\ ~(node <= max_node_id_)
    /\ pc' = "done"
    /\ UNCHANGED <<graphVars, offsets_, destinations_, max_node_id_, node, offset, viewVars>>

\* The loop's exit and line 115; compile() returns the CompiledGraph.
CompileEnd ==
    /\ pc = "compile_loop"
    /\ ~(node <= max_node_id_)
    /\ offsets_' = [offsets_ EXCEPT ![max_node_id_ + 1] = offset]
    /\ pc' = "done"
    /\ UNCHANGED <<graphVars, destinations_, max_node_id_, node, offset, viewVars>>

\* ------------------------------------------------------- traversal views
\* graph_->successors(n) of the graph type the view is instantiated for: every
\* iteration order of the unordered_set, or the span of the compiled graph.
SuccessorOrders(rep, n) ==
    IF rep = "g"
    THEN Orders(DirectedGraph_successors(adjacency_list_, n))
    ELSE {CompiledGraph_successors(n)}

\* graph.nodes() of the graph type the view is instantiated for.
NodesOf(rep) ==
    IF rep = "g" THEN DirectedGraph_nodes(adjacency_list_) ELSE CompiledGraph_nodes

\* The last element of a non-empty stack, and the stack below it.
Top(stack) == stack[Len(stack)]
Pop(stack) == SubSeq(stack, 1, Len(stack) - 1)

PopVisited_NoCheck(stack, visited) == stack

\* Lines 203-207 and 218-219: pop until the top is unvisited or the stack is empty.
RECURSIVE PopVisited(_, _)
PopVisited(stack, visited) ==
    IF stack = <<>> THEN stack
    ELSE IF Top(stack) \in visited THEN PopVisited(Pop(stack), visited)
    ELSE stack

\* Lines 212-216: push the successors that are not visited, in iteration order.
PushUnvisited(stack, order, visited) ==
    stack \o SelectSeq(order, LAMBDA x : x \notin visited)

\* advance_to_next that leaves at_end_ as it was when the stack runs empty.
advance_to_next_NoEnd(rep, stack, visited) ==
    LET rest == PopVisited(stack, visited)
    IN IF rest = <<>>
       THEN /\ stack_' = <<>>
            /\ at_end_' = FALSE
            /\ visited_' = visited
            /\ UNCHANGED <<current_, out>>
       ELSE /\ visited_' = visited \cup {Top(rest)}
            /\ current_' = Top(rest)
            /\ \E order \in SuccessorOrders(rep, Top(rest)) :
                  stack_' = PushUnvisited(Pop(rest), order, visited_')
            /\ at_end_' = FALSE
            /\ out' = Append(out, current_')

\* dfs iterator::advance_to_next on the given stack_ and visited_, over graph rep;
\* the consumer reads *it when the iterator is not at the end.
advance_to_next(rep, stack, visited) ==
    LET rest == PopVisited(stack, visited)
    IN IF rest = <<>>
       THEN /\ stack_' = <<>>
            /\ at_end_' = TRUE
            /\ visited_' = visited
            /\ UNCHANGED <<current_, out>>
       ELSE /\ visited_' = visited \cup {Top(rest)}
            /\ current_' = Top(rest)
            /\ \E order \in SuccessorOrders(rep, Top(rest)) :
                  stack_' = PushUnvisited(Pop(rest), order, visited_')
            /\ at_end_' = FALSE
            /\ out' = Append(out, current_')

\* dfs_view_t(graph, start).begin(): the iterator's constructor (lines 191-198).
DfsBegin(rep, start) ==
    /\ pc = "done"
    /\ pc' = "dfs"
    /\ start_' = start
    /\ graph_' = rep
    /\ it_graph_' = rep
    /\ advance_to_next(rep, <<start>>, {})
    /\ UNCHANGED <<graphVars, compiledVars, queue_, in_degree, sorted_nodes_>>

\* dfs iterator::operator++ (lines 225-228), while it != end().
DfsNext ==
    /\ pc = "dfs"
    /\ ~at_end_
    /\ advance_to_next(it_graph_, stack_, visited_)
    /\ UNCHANGED <<graphVars, compiledVars, pc, start_, graph_, it_graph_, queue_, in_degree, sorted_nodes_>>

EnqueueUnvisited_FirstOnly(st, order) ==
    LET fresh == SelectSeq(order, LAMBDA x : x \notin st.visited)
    IN IF fresh = <<>> THEN st
       ELSE [visited |-> st.visited \cup {fresh[1]}, queue |-> Append(st.queue, fresh[1])]

\* Successors pushed at the front of the queue, as onto a stack.
RECURSIVE EnqueueUnvisited_AtFront(_, _)
EnqueueUnvisited_AtFront(st, order) ==
    IF order = <<>> THEN st
    ELSE IF Head(order) \in st.visited
         THEN EnqueueUnvisited_AtFront(st, Tail(order))
         ELSE EnqueueUnvisited_AtFront([visited |-> st.visited \cup {Head(order)},
                                        queue |-> <<Head(order)>> \o st.queue],
                                       Tail(order))

\* Lines 274-279: every successor not visited is marked visited and enqueued.
RECURSIVE EnqueueUnvisited(_, _)
EnqueueUnvisited(st, order) ==
    IF order = <<>> THEN st
    ELSE IF Head(order) \in st.visited
         THEN EnqueueUnvisited(st, Tail(order))
         ELSE EnqueueUnvisited([visited |-> st.visited \cup {Head(order)},
                                queue |-> Append(st.queue, Head(order))],
                               Tail(order))

\* bfs_view_t(graph, start).begin(): the iterator's constructor (lines 258-263);
\* the consumer reads *it.
BfsBegin(rep, start) ==
    /\ pc = "done"
    /\ pc' = "bfs"
    /\ start_' = start
    /\ graph_' = rep
    /\ it_graph_' = rep
    /\ current_' = start
    /\ queue_' = <<start>>
    /\ visited_' = {start}
    /\ out' = <<start>>
    /\ UNCHANGED <<graphVars, compiledVars, stack_, at_end_, in_degree, sorted_nodes_>>

\* bfs iterator::operator++ (lines 269-291), while it != end(); the consumer
\* reads *it when the iterator is not at the end.
BfsNext ==
    /\ pc = "bfs"
    /\ it_graph_ # "null"
    /\ IF queue_ # <<>>
       THEN \E order \in SuccessorOrders(it_graph_, Head(queue_)) :
               LET st == EnqueueUnvisited([visited |-> visited_, queue |-> Tail(queue_)], order)
               IN /\ visited_' = st.visited
                  /\ queue_' = st.queue
                  /\ IF st.queue # <<>>
                     THEN /\ current_' = Head(st.queue)
                          /\ it_graph_' = it_graph_
                          /\ out' = Append(out, current_')
                     ELSE /\ it_graph_' = "null"
                          /\ UNCHANGED <<current_, out>>
       ELSE /\ it_graph_' = "null"
            /\ UNCHANGED <<queue_, visited_, current_, out>>
    /\ UNCHANGED <<graphVars, compiledVars, pc, start_, graph_, stack_, at_end_, in_degree, sorted_nodes_>>

\* How many times k occurs in the sequence s.
Occurrences(s, k) == Cardinality({i \in DOMAIN s : s[i] = k})

RECURSIVE SumOccurrences(_, _, _)
SumOccurrences(rep, N, k) ==
    IF N = {} THEN 0
    ELSE LET n == CHOOSE x \in N : TRUE
             order == CHOOSE o \in SuccessorOrders(rep, n) : TRUE
         IN Occurrences(order, k) + SumOccurrences(rep, N \ {n}, k)

\* Lines 313-324: in_degree[node] = 0 for every node, then in_degree[successor]++
\* over every node's successors (operator[] inserts a key it does not find).
\* in_degree that does not count an edge from a node to itself.
InitialInDegree_NoSelfLoops(rep) ==
    LET N == NodesOf(rep)
        keys == N \cup UNION {Range(CHOOSE o \in SuccessorOrders(rep, n) : TRUE) : n \in N}
    IN [k \in keys |-> SumOccurrences(rep, N \ {k}, k)]

InitialInDegree(rep) ==
    LET N == NodesOf(rep)
        keys == N \cup UNION {Range(CHOOSE o \in SuccessorOrders(rep, n) : TRUE) : n \in N}
    IN [k \in keys |-> SumOccurrences(rep, N, k)]

ZeroDegreeKeys_All(deg) == DOMAIN deg

\* Lines 328-332: the keys of in_degree whose degree is 0.
ZeroDegreeKeys(deg) == {k \in DOMAIN deg : deg[k] = 0}

\* Lines 340-345: in_degree[successor]--, and the successor is enqueued at 0.
RECURSIVE Relax(_, _)
Relax(st, order) ==
    IF order = <<>> THEN st
    ELSE LET s == Head(order)
             d == (IF s \in DOMAIN st.deg THEN st.deg[s] ELSE 0) - 1
             deg2 == IF s \in DOMAIN st.deg
                     THEN [st.deg EXCEPT ![s] = d]
                     ELSE st.deg @@ (s :> d)
         IN Relax([deg |-> deg2,
                   queue |-> IF d = 0 THEN Append(st.queue, s) ELSE st.queue],
                  Tail(order))

\* topological_view_t(graph): the constructor up to the processing loop
\* (lines 311-332); in_degree is iterated in an unspecified order.
TopoBegin(rep) ==
    /\ pc = "done"
    /\ pc' = "topo"
    /\ graph_' = rep
    /\ in_degree' = InitialInDegree(rep)
    /\ \E order \in Orders(ZeroDegreeKeys(in_degree')) : queue_' = order
    /\ sorted_nodes_' = <<>>
    /\ UNCHANGED <<graphVars, compiledVars, start_, it_graph_, stack_, visited_, current_, at_end_, out>>

\* One iteration of the processing loop (lines 335-346).
TopoStep ==
    /\ pc = "topo"
    /\ queue_ # <<>>
    /\ sorted_nodes_' = Append(sorted_nodes_, Head(queue_))
    /\ \E order \in SuccessorOrders(graph_, Head(queue_)) :
          LET st == Relax([deg |-> in_degree, queue |-> Tail(queue_)], order)
          IN /\ in_degree' = st.deg
             /\ queue_' = st.queue
    /\ UNCHANGED <<graphVars, compiledVars, pc, start_, graph_, it_graph_, stack_, visited_, current_, at_end_, out>>

\* The loop's exit: the constructor returns.
TopoEnd ==
    /\ pc = "topo"
    /\ queue_ = <<>>
    /\ pc' = "topo_done"
    /\ UNCHANGED <<graphVars, compiledVars, viewVars>>

\* Line 352.
is_valid == sorted_nodes_ # <<>>

\* DirectedGraphTest::SetUp on the fixture's fresh graph: the four add_edge calls.
SetUp ==
    /\ pc = "edit"
    /\ adjacency_list_ = <<>>
    /\ adjacency_list_' =
          add_edge(add_edge(add_edge(add_edge(adjacency_list_, 0, 1), 1, 2), 0, 2), 3, 3)
    /\ UNCHANGED <<compiledVars, pc, viewVars>>

\* add_edge through a compact graph that aliased the mutable graph's storage
\* instead of copying it.
AddEdgeAfterCompile_Aliased(from, to) ==
    /\ pc = "done"
    /\ \/ DirectedGraph_has_edge(adjacency_list_, from, to)
       \/ DirectedGraph_edge_count(adjacency_list_) < MaxEdges
    /\ adjacency_list_' = add_edge(adjacency_list_, from, to)
    /\ destinations_' = IF Len(destinations_) < MaxDest
                          THEN Append(destinations_, to) ELSE destinations_
    /\ UNCHANGED <<offsets_, max_node_id_, node, offset, pc, viewVars>>

\* DirectedGraph::add_edge on the source graph after compile() has returned.
AddEdgeAfterCompile(from, to) ==
    /\ pc = "done"
    /\ \/ DirectedGraph_has_edge(adjacency_list_, from, to)
       \/ DirectedGraph_edge_count(adjacency_list_) < MaxEdges
    /\ adjacency_list_' = add_edge(adjacency_list_, from, to)
    /\ UNCHANGED <<compiledVars, pc, viewVars>>

\* DirectedGraph::remove_edge on the source graph after compile() has returned.
RemoveEdgeAfterCompile(from, to) ==
    /\ pc = "done"
    /\ adjacency_list_' = remove_edge(adjacency_list_, from, to)
    /\ UNCHANGED <<compiledVars, pc, viewVars>>

\* The queries record what they return in `out`; a bool is recorded as 0 or 1.

\* successors() that looks the node up with operator[] instead of find().
QuerySuccessors_Indexing(n) ==
    /\ pc = "edit"
    /\ adjacency_list_' = MapIndex(adjacency_list_, n)
    /\ \E order \in Orders(adjacency_list_'[n]) : out' = order
    /\ UNCHANGED <<compiledVars, pc, start_, graph_, it_graph_, stack_, queue_,
                   visited_, current_, at_end_, in_degree, sorted_nodes_>>

\* DirectedGraph::successors(n), iterated by the caller.
QuerySuccessors(n) ==
    /\ pc = "edit"
    /\ \E order \in Orders(DirectedGraph_successors(adjacency_list_, n)) : out' = order
    /\ UNCHANGED <<graphVars, compiledVars, pc, start_, graph_, it_graph_, stack_,
                   queue_, visited_, current_, at_end_, in_degree, sorted_nodes_>>

\* DirectedGraph::has_edge(from, to).
QueryHasEdge(from, to) ==
    /\ pc = "edit"
    /\ out' = IF DirectedGraph_has_edge(adjacency_list_, from, to) THEN <<1>> ELSE <<0>>
    /\ UNCHANGED <<graphVars, compiledVars, pc, start_, graph_, it_graph_, stack_,
                   queue_, visited_, current_, at_end_, in_degree, sorted_nodes_>>

\* CompiledGraph::successors(n), iterated by the caller.
QueryCompiledSuccessors(n) ==
    /\ pc = "done"
    /\ out' = CompiledGraph_successors(n)
    /\ UNCHANGED <<graphVars, compiledVars, pc, start_, graph_, it_graph_, stack_,
                   queue_, visited_, current_, at_end_, in_degree, sorted_nodes_>>

\* CompiledGraph::has_edge(from, to).
QueryCompiledHasEdge(from, to) ==
    /\ pc = "done"
    /\ out' = IF CompiledGraph_has_edge(from, to) THEN <<1>> ELSE <<0>>
    /\ UNCHANGED <<graphVars, compiledVars, pc, start_, graph_, it_graph_, stack_,
                   queue_, visited_, current_, at_end_, in_degree, sorted_nodes_>>

\* ------------------------------------------------------------------ to_dot
\* The output stream is the sequence of its lines, a line the sequence of the
\* strings inserted into the stream; operator<< writes a NodeID in decimal.

\* The names the graph is printed under.
GraphNames == {"G", "Test"}

\* g.nodes() in iteration order: any order for the unordered_map's keys, the
\* filtered iota's ascending order for the compact graph.
NodeOrders(rep) ==
    IF rep = "g" THEN Orders(DirectedGraph_nodes(adjacency_list_))
    ELSE {SortVector(order) : order \in Orders(CompiledGraph_nodes)}

\* One iteration order of g.successors(n) for every node of the graph.
SuccessorPicks(rep) ==
    LET S == NodesOf(rep)
    IN {pick \in [S -> UNION {SuccessorOrders(rep, n) : n \in S}] :
            \A n \in S : pick[n] \in SuccessorOrders(rep, n)}

NodeLine(n) == <<"    ", ToString(n), ";\n">>

EdgeLine(from, to) == <<"    ", ToString(from), " -> ", ToString(to), ";\n">>

\* The first loop of to_dot.
NodeLines(order) == [i \in 1 .. Len(order) |-> NodeLine(order[i])]

\* The inner loop of to_dot for one `from`.
EdgeLinesFrom(from, succ) == [i \in 1 .. Len(succ) |-> EdgeLine(from, succ[i])]

\* The second loop that walks the nodes from the last to the first.
RECURSIVE EdgeLines_Backwards(_, _)
EdgeLines_Backwards(order, pick) ==
    IF order = <<>> THEN <<>>
    ELSE EdgeLines_Backwards(Tail(order), pick)
            \o EdgeLinesFrom(Head(order), pick[Head(order)])

\* The second loop of to_dot.
RECURSIVE EdgeLines(_, _)
EdgeLines(order, pick) ==
    IF order = <<>> THEN <<>>
    ELSE EdgeLinesFrom(Head(order), pick[Head(order)])
            \o EdgeLines(Tail(order), pick)

\* to_dot(g, graph_name) over the mutable or the compiled graph.
ToDot(rep, graph_name) ==
    /\ pc = "done"
    /\ pc' = "dot"
    /\ graph_' = rep
    /\ \E order \in NodeOrders(rep) : \E pick \in SuccessorPicks(rep) :
          out' = <<<<"digraph ", graph_name, " {\n">>>>
                    \o NodeLines(order) \o EdgeLines(order, pick) \o <<<<"}\n">>>>
    /\ UNCHANGED <<graphVars, compiledVars, start_, it_graph_, stack_, queue_,
                   visited_, current_, at_end_, in_degree, sorted_nodes_>>

\* ----------------------------------------------------------- specification
\* Edits of the mutable graph, then one compile().
Next ==
    \/ \E from, to \in InputIds : AddEdge(from, to)
    \/ \E from, to \in InputIds : RemoveEdge(from, to)
    \/ CompileBegin
    \/ CompileStep
    \/ CompileEnd

Spec == Init /\ [][Next]_vars

\* A graph over the ordinary identifiers, or the test fixture's graph, is built,
\* edited and compiled, then one view over the mutable or the compiled graph is
\* consumed.
NextViews ==
    \/ SetUp
    \/ \E from, to \in ViewIds : AddEdge(from, to)
    \/ \E from, to \in ViewIds : RemoveEdge(from, to)
    \/ CompileBegin
    \/ CompileStep
    \/ CompileEnd
    \/ \E rep \in {"g", "c"}, start \in ViewIds : DfsBegin(rep, start)
    \/ DfsNext
    \/ \E rep \in {"g", "c"}, start \in ViewIds : BfsBegin(rep, start)
    \/ BfsNext
    \/ \E rep \in {"g", "c"} : TopoBegin(rep)
    \/ TopoStep
    \/ TopoEnd

SpecViews == Init /\ [][NextViews]_vars

\* ------------------------------------------------ claims on the mutable graph
\* The edges (from, to) stored in a mutable graph.
EdgeSet(adj) == UNION {{<<n, t>> : t \in adj[n]} : n \in DOMAIN adj}

\* The identifiers that are an endpoint of some edge of E.
Endpoints(E) == {e[1] : e \in E} \cup {e[2] : e \in E}

\* C1: after any sequence of add_edge and remove_edge calls, add_edge(a, b), a = b
\* included, leaves has_edge(a, b) true and both a and b in nodes().
C1_AddEdgeEnsuresEdgeAndNodes ==
    [][\A a, b \in InputIds :
          AddEdge(a, b) =>
              /\ DirectedGraph_has_edge(adjacency_list_', a, b)
              /\ a \in DirectedGraph_nodes(adjacency_list_')
              /\ b \in DirectedGraph_nodes(adjacency_list_')]_vars

\* A self-loop was added, and an edge to a node that exists only as a destination.
C1_Witness ==
    /\ pc = "edit"
    /\ \E a, b \in InputIds :
          /\ a # b
          /\ DirectedGraph_has_edge(adjacency_list_, a, a)
          /\ DirectedGraph_has_edge(adjacency_list_, a, b)
          /\ b \in DirectedGraph_nodes(adjacency_list_)
          /\ DirectedGraph_successors(adjacency_list_, b) = {}

\* C2: remove_edge(a, b) leaves has_edge(a, b) false and changes nothing else: the
\* node set and node_count() are unchanged, every other edge is unchanged, and
\* edge_count() drops by 1 if the edge existed and by 0 otherwise.
C2_RemoveEdgeFrame ==
    [][\A a, b \in InputIds :
          RemoveEdge(a, b) =>
              /\ ~DirectedGraph_has_edge(adjacency_list_', a, b)
              /\ DirectedGraph_nodes(adjacency_list_') = DirectedGraph_nodes(adjacency_list_)
              /\ DirectedGraph_node_count(adjacency_list_')
                    = DirectedGraph_node_count(adjacency_list_)
              /\ EdgeSet(adjacency_list_') \ {<<a, b>>} = EdgeSet(adjacency_list_) \ {<<a, b>>}
              /\ DirectedGraph_edge_count(adjacency_list_')
                    = DirectedGraph_edge_count(adjacency_list_)
                      - (IF DirectedGraph_has_edge(adjacency_list_, a, b) THEN 1 ELSE 0)]_vars

\* A node is left with no incident edge (only remove_edge produces one) while
\* other edges are still stored.
C2_Witness ==
    /\ pc = "edit"
    /\ DirectedGraph_edge_count(adjacency_list_) >= 1
    /\ \E n \in DirectedGraph_nodes(adjacency_list_) :
          n \notin Endpoints(EdgeSet(adjacency_list_))

\* ---------------------------------------------- claims on the compiled graph
\* C3: for the compact graph c returned by g.compile() and all identifiers of
\* the whole range: c.has_edge = g.has_edge, c.successors(n) holds exactly the
\* elements of g.successors(n), c.out_degree(n) is the size of g's successor set,
\* and c.edge_count() = g.edge_count().
C3_CompiledAgreesOnEdges ==
    pc = "done" =>
        /\ \A from, to \in NodeIdRange :
              CompiledGraph_has_edge(from, to)
                  <=> DirectedGraph_has_edge(adjacency_list_, from, to)
        /\ \A n \in NodeIdRange :
              /\ Range(CompiledGraph_successors(n))
                    = DirectedGraph_successors(adjacency_list_, n)
              /\ CompiledGraph_out_degree(n)
                    = Cardinality(DirectedGraph_successors(adjacency_list_, n))
        /\ CompiledGraph_edge_count = DirectedGraph_edge_count(adjacency_list_)

\* A compiled graph whose last node has successors, with a gap below it.
C3_Witness ==
    /\ pc = "done"
    /\ CompiledGraph_out_degree(max_node_id_) >= 2
    /\ \E n \in 0 .. max_node_id_ : n \notin DirectedGraph_nodes(adjacency_list_)

\* C4 (as claimed): the compact graph has the same nodes as the mutable graph it was
\* compiled from, nodes left with no incident edge included, and the same
\* node_count().
C4_CompiledSameNodes ==
    pc = "done" =>
        /\ CompiledGraph_nodes = DirectedGraph_nodes(adjacency_list_)
        /\ CompiledGraph_node_count = DirectedGraph_node_count(adjacency_list_)

\* Strictly ascending sequence.
StrictlyAscending(s) == \A i, j \in DOMAIN s : i < j => s[i] < s[j]

\* C5: for every identifier n, c.successors(n) is strictly ascending.
C5_CompiledSuccessorsStrictlyAscending ==
    pc = "done" => \A n \in NodeIdRange : StrictlyAscending(CompiledGraph_successors(n))

\* A compiled node with three successors.
C5_Witness ==
    /\ pc = "done"
    /\ \E n \in NodeIdRange : Len(CompiledGraph_successors(n)) >= 3

\* The number of edges of E whose source is below n.
EdgesBelow(E, n) == Cardinality({e \in E : e[1] < n})

\* The edges of E in ascending (from, to) order.
RECURSIVE EdgesAscending(_)
EdgesAscending(E) ==
    IF E = {} THEN <<>>
    ELSE LET m == CHOOSE e \in E :
                     \A f \in E : e[1] < f[1] \/ (e[1] = f[1] /\ e[2] <= f[2])
         IN <<m>> \o EdgesAscending(E \ {m})

\* C6: the arrays compile() yields for a graph built by add_edge calls alone (its
\* nodes are the endpoints of its edges) are determined by the edge set, whatever
\* the order of insertion and of iteration: offsets_[n] counts the edges with a
\* smaller source and destinations_ lists the targets in ascending (from, to) order.
C6_CompileOrderIndependent ==
    (pc = "done"
        /\ DirectedGraph_nodes(adjacency_list_) = Endpoints(EdgeSet(adjacency_list_))) =>
        LET E == EdgeSet(adjacency_list_)
            m == SetMax(Endpoints(E) \cup {0})
            asc == EdgesAscending(E)
        IN /\ DOMAIN offsets_ = 0 .. (m + 1)
           /\ \A n \in 0 .. (m + 1) : offsets_[n] = EdgesBelow(E, n)
           /\ destinations_ = [i \in 1 .. Len(asc) |-> asc[i][2]]

\* Two nodes with two successors each, so that several iteration orders exist.
C6_Witness ==
    /\ pc = "done"
    /\ DirectedGraph_nodes(adjacency_list_) = Endpoints(EdgeSet(adjacency_list_))
    /\ \E n \in NodeIdRange : CompiledGraph_out_degree(n) >= 2
    /\ \E n \in NodeIdRange :
          CompiledGraph_out_degree(n) >= 1 /\ n > 0 /\ CompiledGraph_out_degree(0) >= 1

\* ------------------------------------------------ claims on the traversals
\* The successors of n in the graph the view traverses.
SuccessorSet(rep, n) == Range(CHOOSE o \in SuccessorOrders(rep, n) : TRUE)

\* The identifiers reachable from a member of S by zero or more edges.
RECURSIVE ReachFrom(_, _)
ReachFrom(rep, S) ==
    LET next == S \cup UNION {SuccessorSet(rep, n) : n \in S}
    IN IF next = S THEN S ELSE ReachFrom(rep, next)

\* No value occurs twice in the sequence.
NoDuplicates(s) == \A i, j \in DOMAIN s : s[i] = s[j] => i = j

\* The traversed graph has the edge u -> v.
HasEdgeBetween(rep, u, v) == v \in SuccessorSet(rep, u)

\* C7: depth-first traversal from s over either representation emits s first,
\* emits no node twice and no node unreachable from s, and, consumed to
\* exhaustion, has emitted every node reachable from s.
C7_DfsVisitsReachableOnce ==
    pc = "dfs" =>
        /\ out # <<>>
        /\ out[1] = start_
        /\ NoDuplicates(out)
        /\ Range(out) \subseteq ReachFrom(graph_, {start_})
        /\ at_end_ => Range(out) = ReachFrom(graph_, {start_})

\* An exhausted traversal of the compiled graph that went round a cycle through
\* the start node and left a node of the graph unvisited.
C7_Witness ==
    /\ pc = "dfs"
    /\ at_end_
    /\ graph_ = "c"
    /\ Len(out) >= 2
    /\ \E n \in Range(out) : HasEdgeBetween(graph_, n, start_)
    /\ \E n \in DirectedGraph_nodes(adjacency_list_) : n \notin Range(out)

\* C8: breadth-first traversal from s over either representation emits s first,
\* emits no node twice and no node unreachable from s, and, consumed to
\* exhaustion, has emitted every node reachable from s.
C8_BfsVisitsReachableOnce ==
    pc = "bfs" =>
        /\ out # <<>>
        /\ out[1] = start_
        /\ NoDuplicates(out)
        /\ Range(out) \subseteq ReachFrom(graph_, {start_})
        /\ it_graph_ = "null" => Range(out) = ReachFrom(graph_, {start_})

\* An exhausted traversal of the mutable graph in which a node with two emitted
\* predecessors was emitted.
C8_Witness ==
    /\ pc = "bfs"
    /\ it_graph_ = "null"
    /\ graph_ = "g"
    /\ Len(out) >= 3
    /\ \E n, u, v \in Range(out) :
          /\ u # v /\ u # n /\ v # n
          /\ HasEdgeBetween(graph_, u, n)
          /\ HasEdgeBetween(graph_, v, n)

\* No node of the traversed graph lies on a cycle (self-loops are cycles).
Acyclic(rep) ==
    \A n \in NodeIdRange : n \notin ReachFrom(rep, SuccessorSet(rep, n))

\* C9 (as claimed): is_valid() is true if and only if the graph is acyclic, the
\* empty graph and graphs with self-loops included, and when is_valid() is true
\* the emitted sequence is as long as the node count.
C9_TopoValidIffAcyclic ==
    pc = "topo_done" =>
        /\ is_valid <=> Acyclic(graph_)
        /\ is_valid => Len(sorted_nodes_) = Cardinality(NodesOf(graph_))

\* The position of an emitted node in the sequence.
PositionIn(s, x) == CHOOSE i \in DOMAIN s : s[i] = x

\* C10: in the sequence the topological view emits, no node appears twice, every
\* emitted identifier is a node of the graph, and for every edge u -> v, u # v,
\* with both endpoints emitted, u comes before v.
C10_TopoOrderRespectsEdges ==
    pc \in {"topo", "topo_done"} =>
        /\ NoDuplicates(sorted_nodes_)
        /\ Range(sorted_nodes_) \subseteq NodesOf(graph_)
        /\ \A u, v \in Range(sorted_nodes_) :
              (u # v /\ HasEdgeBetween(graph_, u, v)) =>
                  PositionIn(sorted_nodes_, u) < PositionIn(sorted_nodes_, v)

\* A finished ordering of three nodes with the edges a -> b, b -> c and a -> c.
C10_Witness ==
    /\ pc = "topo_done"
    /\ Len(sorted_nodes_) >= 3
    /\ \E i, j, k \in DOMAIN sorted_nodes_ :
          /\ i < j /\ j < k
          /\ HasEdgeBetween(graph_, sorted_nodes_[i], sorted_nodes_[j])
          /\ HasEdgeBetween(graph_, sorted_nodes_[j], sorted_nodes_[k])
          /\ HasEdgeBetween(graph_, sorted_nodes_[i], sorted_nodes_[k])


\* The edges of the test fixture's graph.
FixtureEdges == {<<0, 1>>, <<1, 2>>, <<0, 2>>, <<3, 3>>}

\* The successors of n other than n itself.
ProperSuccessors(rep, n) == SuccessorSet(rep, n) \ {n}

\* The identifiers reachable from a member of S by edges that are not self-loops.
RECURSIVE ReachIgnoringSelfLoops(_, _)
ReachIgnoringSelfLoops(rep, S) ==
    LET next == S \cup UNION {ProperSuccessors(rep, n) : n \in S}
    IN IF next = S THEN S ELSE ReachIgnoringSelfLoops(rep, next)

\* The traversed graph is acyclic once its self-loop edges are ignored.
AcyclicIgnoringSelfLoops(rep) ==
    \A n \in NodeIdRange : n \notin ReachIgnoringSelfLoops(rep, ProperSuccessors(rep, n))

\* C11 (as claimed): the topological view of a graph that has self-loops and no
\* other cycle reports is_valid() true.
C11_SelfLoopsOnlyIsValid ==
    (pc = "topo_done"
        /\ AcyclicIgnoringSelfLoops(graph_)
        /\ \E n \in NodesOf(graph_) : HasEdgeBetween(graph_, n, n)) => is_valid


\* A graph is built and compiled, and the source graph is edited further while
\* the compact graph is kept.
NextSnapshot ==
    \/ \E from, to \in ViewIds : AddEdge(from, to)
    \/ \E from, to \in ViewIds : RemoveEdge(from, to)
    \/ CompileBegin
    \/ CompileStep
    \/ CompileEnd
    \/ \E from, to \in SparseIds : AddEdgeAfterCompile(from, to)
    \/ \E from, to \in SparseIds : RemoveEdgeAfterCompile(from, to)

SpecSnapshot == Init /\ [][NextSnapshot]_vars

\* C12: no step of compile() changes the mutable graph, and once compile() has
\* returned no edit of the mutable graph changes the compact graph's arrays or
\* any of its observations.
C12_CompileIsPureSnapshot ==
    [][/\ (pc # "edit" \/ pc' # "edit") /\ pc # "done"
            => adjacency_list_' = adjacency_list_
       /\ (pc = "done" /\ pc' = "done") =>
            /\ offsets_' = offsets_
            /\ destinations_' = destinations_
            /\ max_node_id_' = max_node_id_
            /\ CompiledGraph_nodes' = CompiledGraph_nodes
            /\ CompiledGraph_edge_count' = CompiledGraph_edge_count
            /\ \A n \in 0 .. (max_node_id_ + 1) :
                  /\ CompiledGraph_successors(n)' = CompiledGraph_successors(n)
                  /\ CompiledGraph_out_degree(n)' = CompiledGraph_out_degree(n)
                  /\ \A t \in 0 .. (max_node_id_ + 1) :
                        CompiledGraph_has_edge(n, t)' = CompiledGraph_has_edge(n, t)]_vars

\* An edge the compact graph holds has been removed from the source graph and an
\* edge it lacks has been added, after compile() returned.
C12_Witness ==
    /\ pc = "done"
    /\ \E a, b \in NodeIdRange :
          CompiledGraph_has_edge(a, b) /\ ~DirectedGraph_has_edge(adjacency_list_, a, b)
    /\ \E a, b \in NodeIdRange :
          ~CompiledGraph_has_edge(a, b) /\ DirectedGraph_has_edge(adjacency_list_, a, b)


\* C13: add_edge is idempotent. From every graph the program can hold, adding an
\* edge twice gives the graph that adding it once gives (same node set, edge
\* set, node_count and edge_count), and adding an edge the graph already has
\* gives the graph itself.
C13_AddEdgeIdempotent ==
    \A a, b \in InputIds :
        LET once  == add_edge(adjacency_list_, a, b)
            twice == add_edge(once, a, b)
        IN /\ twice = once
           /\ DirectedGraph_nodes(twice) = DirectedGraph_nodes(once)
           /\ EdgeSet(twice) = EdgeSet(once)
           /\ DirectedGraph_node_count(twice) = DirectedGraph_node_count(once)
           /\ DirectedGraph_edge_count(twice) = DirectedGraph_edge_count(once)
           /\ DirectedGraph_has_edge(adjacency_list_, a, b) =>
                 /\ once = adjacency_list_
                 /\ DirectedGraph_edge_count(once)
                       = DirectedGraph_edge_count(adjacency_list_)

\* add_edge has built a graph with a chain of two edges and a self-loop, so that
\* re-adding touches nodes that have successors of their own.
C13_Witness ==
    /\ pc = "edit"
    /\ \E a, b, c \in InputIds :
          /\ a # b
          /\ DirectedGraph_has_edge(adjacency_list_, a, b)
          /\ DirectedGraph_has_edge(adjacency_list_, b, c)
    /\ \E a \in InputIds : DirectedGraph_has_edge(adjacency_list_, a, a)


\* A graph with a gap in its identifiers is built and compiled, and both graphs
\* are queried about nodes and about identifiers that are not nodes.
NextQueries ==
    \/ \E from, to \in SparseIds : AddEdge(from, to)
    \/ \E from, to \in SparseIds : RemoveEdge(from, to)
    \/ CompileBegin
    \/ CompileStep
    \/ CompileEnd
    \/ \E n \in QueryIds : QuerySuccessors(n)
    \/ \E from, to \in QueryIds : QueryHasEdge(from, to)
    \/ \E n \in QueryIds : QueryCompiledSuccessors(n)
    \/ \E from, to \in QueryIds : QueryCompiledHasEdge(from, to)

SpecQueries == Init /\ [][NextQueries]_vars

\* C14: a query about an unknown node returns the empty answer and changes
\* nothing. On the mutable graph successors(n) is empty and has_edge(n, x) is
\* false when n is not a node, and n is not a node afterwards; on the compact
\* graph successors(n) is empty and has_edge(n, x) is false when n is greater
\* than max_node_id.
C14_UnknownNodeQueries ==
    [][/\ \A n \in QueryIds :
            (n \notin DirectedGraph_nodes(adjacency_list_) /\ QuerySuccessors(n)) =>
                /\ out' = <<>>
                /\ adjacency_list_' = adjacency_list_
                /\ n \notin DirectedGraph_nodes(adjacency_list_')
       /\ \A n, x \in QueryIds :
            (n \notin DirectedGraph_nodes(adjacency_list_) /\ QueryHasEdge(n, x)) =>
                /\ out' = <<0>>
                /\ adjacency_list_' = adjacency_list_
                /\ n \notin DirectedGraph_nodes(adjacency_list_')
       /\ \A n \in QueryIds :
            (n > max_node_id_ /\ QueryCompiledSuccessors(n)) =>
                /\ out' = <<>>
                /\ <<adjacency_list_, compiledVars>>' = <<adjacency_list_, compiledVars>>
       /\ \A n, x \in QueryIds :
            (n > max_node_id_ /\ QueryCompiledHasEdge(n, x)) =>
                /\ out' = <<0>>
                /\ <<adjacency_list_, compiledVars>>' = <<adjacency_list_, compiledVars>>
      ]_vars

\* has_edge has answered false about a graph that has edges and in which 1 is
\* not a node.
C14_Witness ==
    /\ out = <<0>>
    /\ 1 \notin DirectedGraph_nodes(adjacency_list_)
    /\ EdgeSet(adjacency_list_) # {}


\* The test fixture's graph, or a graph with a gap in its identifiers, is edited,
\* compiled and printed.
NextDot ==
    \/ SetUp
    \/ \E from, to \in SparseIds : AddEdge(from, to)
    \/ \E from, to \in SparseIds : RemoveEdge(from, to)
    \/ CompileBegin
    \/ CompileStep
    \/ CompileEnd
    \/ \E rep \in {"g", "c"}, graph_name \in GraphNames : ToDot(rep, graph_name)

SpecDot == Init /\ [][NextDot]_vars

\* The edges of the mutable or of the compact graph.
EdgesOf(rep) == {e \in NodeIdRange \X NodeIdRange : HasEdgeBetween(rep, e[1], e[2])}

\* C15: to_dot prints, between the `digraph <name> {` line and the `}` line, one
\* node line per identifier of nodes() in the order of nodes(), then one edge
\* line per stored edge, the edges grouped by `from` in the order of nodes().
\* For the compact graph the node lines are in ascending order, the edge lines
\* ascending by from and then by to, and there are edge_count() edge lines.
C15_ToDotLayout ==
    pc = "dot" =>
        LET N == Cardinality(NodesOf(graph_))
            nodeLines == SubSeq(out, 2, N + 1)
            edgeLines == SubSeq(out, N + 2, Len(out) - 1)
        IN /\ Len(out) = N + Cardinality(EdgesOf(graph_)) + 2
           /\ \E graph_name \in GraphNames : out[1] = <<"digraph ", graph_name, " {\n">>
           /\ out[Len(out)] = <<"}\n">>
           /\ \E order \in Orders(NodesOf(graph_)) :
                 /\ \A i \in 1 .. N : nodeLines[i] = NodeLine(order[i])
                 /\ \E es \in Orders(EdgesOf(graph_)) :
                       /\ \A i \in 1 .. Len(es) : edgeLines[i] = EdgeLine(es[i][1], es[i][2])
                       /\ \A i, j \in 1 .. Len(es) :
                             i < j => PositionIn(order, es[i][1]) <= PositionIn(order, es[j][1])
           /\ graph_ = "c" =>
                 /\ \A i \in 1 .. N : \A j \in 1 .. N :
                       i < j => \E a, b \in NodesOf("c") :
                           a < b /\ nodeLines[i] = NodeLine(a) /\ nodeLines[j] = NodeLine(b)
                 /\ LET es == EdgesAscending(EdgesOf("c"))
                    IN edgeLines = [i \in 1 .. Len(es) |-> EdgeLine(es[i][1], es[i][2])]
                 /\ Len(edgeLines) = CompiledGraph_edge_count

\* The test fixture's graph has been printed from its compiled form, and the
\* output is the string the test expects.
C15_Witness ==
    /\ pc = "dot"
    /\ graph_ = "c"
    /\ EdgeSet(adjacency_list_) = FixtureEdges
    /\ out = << <<"digraph ", "G", " {\n">>,
                <<"    ", "0", ";\n">>, <<"    ", "1", ";\n">>,
                <<"    ", "2", ";\n">>, <<"    ", "3", ";\n">>,
                <<"    ", "0", " -> ", "1", ";\n">>, <<"    ", "0", " -> ", "2", ";\n">>,
                <<"    ", "1", " -> ", "2", ";\n">>, <<"    ", "3", " -> ", "3", ";\n">>,
                <<"}\n">> >>

\* n lies on a cycle of the traversed graph, a self-loop included.
OnCycle(rep, n) == n \in ReachFrom(rep, SuccessorSet(rep, n))

\* The nodes that neither lie on a cycle nor can be reached from a node on one.
OutsideCyclicPart(rep) ==
    {n \in NodesOf(rep) :
        \A c \in NodesOf(rep) : OnCycle(rep, c) => n \notin ReachFrom(rep, {c})}

\* C16: the topological view emits a node if and only if the node neither lies
\* on a cycle (self-loops included) nor is reachable from a node on a cycle; for
\* the test fixture's graph it emits three nodes and omits node 3.
C16_TopoExcludesCyclicPart ==
    pc = "topo_done" =>
        /\ Range(sorted_nodes_) = OutsideCyclicPart(graph_)
        /\ (EdgesOf(graph_) = FixtureEdges /\ NodesOf(graph_) = {0, 1, 2, 3}) =>
              /\ Len(sorted_nodes_) = 3
              /\ 3 \notin Range(sorted_nodes_)

\* The topological view of the test fixture's graph has been built.
C16_Witness ==
    /\ pc = "topo_done"
    /\ EdgesOf(graph_) = FixtureEdges
    /\ Range(sorted_nodes_) = {0, 1, 2}


\* A graph over four or more identifiers is built and compiled, and a
\* breadth-first view over the mutable or the compiled graph is consumed.
NextLevels ==
    \/ \E from, to \in WideIds : AddEdge(from, to)
    \/ \E from, to \in WideIds : RemoveEdge(from, to)
    \/ CompileBegin
    \/ CompileStep
    \/ CompileEnd
    \/ \E rep \in {"g", "c"}, start \in SparseIds : BfsBegin(rep, start)
    \/ BfsNext

SpecLevels == Init /\ [][NextLevels]_vars

\* The length of a shortest path to n from the nodes of `frontier`, which are at
\* distance d; -1 when there is none.
RECURSIVE DistanceFrom(_, _, _, _, _)
DistanceFrom(rep, frontier, seen, d, n) ==
    IF n \in frontier THEN d
    ELSE LET next == UNION {SuccessorSet(rep, m) : m \in frontier} \ seen
         IN IF next = {} THEN -1
            ELSE DistanceFrom(rep, next, seen \cup next, d + 1, n)

Distance(rep, start, n) == DistanceFrom(rep, {start}, {start}, 0, n)

\* C17: the breadth-first view emits nodes in level order: the shortest-path
\* distance from the start never decreases along the emitted sequence, and at
\* every step no node is in the queue more than once.
C17_BfsLevelOrder ==
    pc = "bfs" =>
        /\ NoDuplicates(queue_)
        /\ \A i, j \in DOMAIN out :
              i < j => /\ Distance(graph_, start_, out[i]) >= 0
                       /\ Distance(graph_, start_, out[i])
                             <= Distance(graph_, start_, out[j])

\* An exhausted traversal that emitted two nodes at distance 1 and a node at
\* distance 2.
C17_Witness ==
    /\ pc = "bfs"
    /\ it_graph_ = "null"
    /\ \E a, b, c \in Range(out) :
          /\ a # b
          /\ Distance(graph_, start_, a) = 1
          /\ Distance(graph_, start_, b) = 1
          /\ Distance(graph_, start_, c) = 2


\* The consumer of a traversal view keeps incrementing the iterator until it
\* equals end().
SpecViewsFair == SpecViews /\ WF_vars(DfsNext) /\ WF_vars(BfsNext)

\* C18: on every graph, cycles and self-loops included, a depth-first or
\* breadth-first traversal emits at most one node per node reachable from the
\* start, and after finitely many increments the iterator equals end() with its
\* stack or queue empty.
C18_TraversalsTerminate ==
    /\ [](pc \in {"dfs", "bfs"} =>
            Len(out) <= Cardinality(ReachFrom(graph_, {start_})))
    /\ (pc = "dfs") ~> (at_end_ /\ stack_ = <<>>)
    /\ (pc = "bfs") ~> (it_graph_ = "null" /\ queue_ = <<>>)

\* A depth-first traversal that went around a cycle of two or more nodes has
\* reached end().
C18_Witness ==
    /\ pc = "dfs"
    /\ at_end_
    /\ stack_ = <<>>
    /\ \E a, b \in Range(out) :
          /\ a # b
          /\ b \in SuccessorSet(graph_, a)
          /\ a \in ReachFrom(graph_, {b})


\* C19: in the compact graph compile() returns, offsets has max_node_id + 2
\* entries, where max_node_id is the largest identifier among the source's nodes
\* (0 for the empty graph); offsets[0] = 0, offsets never decreases, its last
\* entry is the length of destinations, and for every n from 0 to max_node_id
\* the entries of destinations from offsets[n] up to offsets[n + 1] are exactly
\* the successors of n in the source, none for an n that is not a node.
C19_OffsetsLayout ==
    pc = "done" =>
        LET N == DirectedGraph_nodes(adjacency_list_)
            slice(n) == [i \in 1 .. (offsets_[n + 1] - offsets_[n])
                            |-> destinations_[offsets_[n] + i]]
        IN /\ N = {} => max_node_id_ = 0
           /\ N # {} => (max_node_id_ \in N /\ \A n \in N : n <= max_node_id_)
           /\ DOMAIN offsets_ = 0 .. (max_node_id_ + 1)
           /\ Cardinality(DOMAIN offsets_) = max_node_id_ + 2
           /\ offsets_[0] = 0
           /\ \A n \in 0 .. max_node_id_ : offsets_[n] <= offsets_[n + 1]
           /\ offsets_[max_node_id_ + 1] = Len(destinations_)
           /\ \A n \in 0 .. max_node_id_ :
                 /\ Range(slice(n)) = DirectedGraph_successors(adjacency_list_, n)
                 /\ Len(slice(n)) = Cardinality(DirectedGraph_successors(adjacency_list_, n))
                 /\ n \notin N => slice(n) = <<>>

\* compile() has returned a graph in which a node with successors comes after an
\* identifier that is not a node and a node without successors.
C19_Witness ==
    /\ pc = "done"
    /\ \E a, b, c \in 0 .. max_node_id_ :
          /\ a < c /\ b < c
          /\ a \notin DirectedGraph_nodes(adjacency_list_)
          /\ b \in DirectedGraph_nodes(adjacency_list_)
          /\ DirectedGraph_successors(adjacency_list_, b) = {}
          /\ DirectedGraph_successors(adjacency_list_, c) # {}


\* C20: edges() of the compact graph compile() returns yields every edge of the
\* source exactly once and nothing else, in ascending order of from and then of
\* to, and as many edges as edge_count() says.
C20_CompiledEdges ==
    pc = "done" =>
        LET edges == CompiledGraph_edges
        IN /\ Range(edges) = EdgeSet(adjacency_list_)
           /\ NoDuplicates(edges)
           /\ \A i, j \in DOMAIN edges :
                 i < j => \/ edges[i][1] < edges[j][1]
                          \/ edges[i][1] = edges[j][1] /\ edges[i][2] < edges[j][2]
           /\ Len(edges) = CompiledGraph_edge_count

\* edges() of a compiled graph yields two edges out of one node and an edge out
\* of the node with the largest identifier.
C20_Witness ==
    /\ pc = "done"
    /\ \E i, j \in DOMAIN CompiledGraph_edges :
          /\ i # j
          /\ CompiledGraph_edges[i][1] = CompiledGraph_edges[j][1]
    /\ \E i \in DOMAIN CompiledGraph_edges :
          CompiledGraph_edges[i][1] = max_node_id_


\* The constructor of CompiledGraph is sequential code: once entered, its loop
\* keeps taking its next iteration or its exit.
SpecCompileFair == Spec /\ WF_vars(CompileStep) /\ WF_vars(CompileEnd)

\* C21 (as claimed): compile() terminates for every mutable graph, one that
\* contains the largest NodeID included: the construction loop, once entered,
\* ends and compile() returns the compact graph.
C21_CompileTerminates == (pc = "compile_loop") ~> (pc = "done")

====
